---- MODULE Spec2Model ----
(***************************************************************************)
(* Model of the WFAP credit negotiation front end:                         *)
(*   App            (handleLoanRequest, fetchOffers, notification, render) *)
(*   OffersGrid     (handleNegotiate, the negotiate button)                *)
(*   PreviousOffers (the history loaded on mount)                          *)
(*   Chatbot        (parseLoanRequestWithOllama, parseLoanRequestFallback, *)
(*                   handleSubmit)                                         *)
(* Text is a TLA+ string, read character by character.  A JavaScript value *)
(* is a tagged record.  Money parsed by parseFloat is kept in hundredths   *)
(* (the patterns admit two decimals); interest rates are kept in           *)
(* thousandths (0.07 is 70, the ask of 0.005 is 5).                        *)
(***************************************************************************)
EXTENDS Integers, Sequences, FiniteSets

(***************************************************************************)
(* JavaScript values                                                       *)
(***************************************************************************)
Null == [t |-> "null"]
Undefined == [t |-> "undefined"]
Num(n) == [t |-> "num", n |-> n]
Str(s) == [t |-> "str", s |-> s]

\* JavaScript truthiness, as used by !x, x || d and x && y.
Truthy(v) ==
  CASE v.t = "num" -> v.n # 0
    [] v.t = "str" -> v.s # ""
    [] OTHER -> FALSE

\* x || d
OrElse(v, d) == IF Truthy(v) THEN v ELSE d

(***************************************************************************)
(* Characters and strings                                                  *)
(***************************************************************************)
Digits == "0123456789"
UpperAlpha == "ABCDEFGHIJKLMNOPQRSTUVWXYZ"
LowerAlpha == "abcdefghijklmnopqrstuvwxyz"

\* s[p], or "" past either end
Char(s, p) == IF p >= 1 /\ p <= Len(s) THEN SubSeq(s, p, p) ELSE ""

DigitSet == {Char(Digits, i) : i \in 1..Len(Digits)}
UpperSet == {Char(UpperAlpha, i) : i \in 1..Len(UpperAlpha)}
DigitValOf == [c \in DigitSet |-> (CHOOSE i \in 1..Len(Digits) : Char(Digits, i) = c) - 1]
LowerOf ==
  [c \in UpperSet |->
     Char(LowerAlpha, CHOOSE i \in 1..Len(UpperAlpha) : Char(UpperAlpha, i) = c)]

IsDigit(c) == c \in DigitSet

\* \s over the characters the inputs use
IsSpace(c) == c = " "

DigitVal(c) == DigitValOf[c]

LowerChar(c) == IF c \in UpperSet THEN LowerOf[c] ELSE c

\* the characters of lit from the k-th on stand at s[p + k - 1 ..], ignoring case
RECURSIVE LitFrom(_, _, _, _)
LitFrom(s, p, lit, k) ==
  IF k > Len(lit) THEN TRUE
  ELSE IF LowerChar(Char(s, p + k - 1)) # Char(lit, k) THEN FALSE
  ELSE LitFrom(s, p, lit, k + 1)

\* the literal lit (lower case) stands at position p of s, ignoring case (/lit/i)
LitAt(s, p, lit) == p >= 1 /\ LitFrom(s, p, lit, 1)

\* position after the longest run of digits (\d*) starting at p
RECURSIVE DigitsEnd(_, _)
DigitsEnd(s, p) == IF IsDigit(Char(s, p)) THEN DigitsEnd(s, p + 1) ELSE p

\* position after the longest run of white space (\s*) starting at p
RECURSIVE SpacesEnd(_, _)
SpacesEnd(s, p) == IF IsSpace(Char(s, p)) THEN SpacesEnd(s, p + 1) ELSE p

\* position after (?:,\d{3})* starting at p
RECURSIVE ThousandsEnd(_, _)
ThousandsEnd(s, p) ==
  IF /\ Char(s, p) = ","
     /\ IsDigit(Char(s, p + 1))
     /\ IsDigit(Char(s, p + 2))
     /\ IsDigit(Char(s, p + 3))
  THEN ThousandsEnd(s, p + 4)
  ELSE p

\* position after (?:\.\d{2})? starting at p
DecimalsEnd(s, p) ==
  IF Char(s, p) = "." /\ IsDigit(Char(s, p + 1)) /\ IsDigit(Char(s, p + 2))
  THEN p + 3
  ELSE p

\* position after \d+(?:,\d{3})*(?:\.\d{2})? starting at the digit at p
NumeralEnd(s, p) == DecimalsEnd(s, ThousandsEnd(s, DigitsEnd(s, p)))

\* value of a string of digits
RECURSIVE DecVal(_)
DecVal(s) ==
  IF s = "" THEN 0
  ELSE 10 * DecVal(SubSeq(s, 1, Len(s) - 1)) + DigitVal(Char(s, Len(s)))

\* str.replace(/,/g, '')
RECURSIVE RemoveCommas(_)
RemoveCommas(s) ==
  IF s = "" THEN ""
  ELSE (IF Head(s) = "," THEN "" ELSE Head(s)) \o RemoveCommas(Tail(s))

\* parseFloat of digits with an optional ".dd", in hundredths
FloatFrom(s, e) ==
  100 * DecVal(SubSeq(s, 1, e - 1))
    + (IF DecimalsEnd(s, e) = e + 3 THEN DecVal(SubSeq(s, e + 1, e + 2)) ELSE 0)

parseFloat(s) == FloatFrom(s, DigitsEnd(s, 1))

\* parseInt of the leading digits
parseInt(s) == DecVal(SubSeq(s, 1, DigitsEnd(s, 1) - 1))

RECURSIVE TrimLeft(_)
TrimLeft(s) == IF s # "" /\ IsSpace(Head(s)) THEN TrimLeft(Tail(s)) ELSE s

RECURSIVE TrimRight(_)
TrimRight(s) ==
  IF s # "" /\ IsSpace(Char(s, Len(s)))
  THEN TrimRight(SubSeq(s, 1, Len(s) - 1))
  ELSE s

\* String.prototype.trim
trim(s) == TrimRight(TrimLeft(s))

(***************************************************************************)
(* Regular expression matches: [index, end) and the capturing groups       *)
(***************************************************************************)
Match(i, e, g) == [index |-> i, end |-> e, groups |-> g]

\* match[k]: undefined when the pattern has no k-th group
Group(m, k) == IF k <= Len(m.groups) THEN Str(m.groups[k]) ELSE Undefined

\* match && match[k]
MatchGroup(m, k) == IF m = Null THEN Null ELSE Group(m, k)

\* /\$?(\d+(?:,\d{3})*(?:\.\d{2})?)/ at p
\* the match from p whose only group is the text from q up to e
Captured(s, p, q, e) == Match(p, e, <<SubSeq(s, q, e - 1)>>)

\* (\d+(?:,\d{3})*(?:\.\d{2})?) at q, ending a match that starts at p
NumeralAt(s, p, q) ==
  IF IsDigit(Char(s, q)) THEN Captured(s, p, q, NumeralEnd(s, q)) ELSE Null

\* position after \$? at p
DollarEnd(s, p) == IF Char(s, p) = "$" THEN p + 1 ELSE p

AmountAt(s, p) == NumeralAt(s, p, DollarEnd(s, p))

\* /(\d+)\s*(?:month|year)/i at p
\* position after (?:month|year) at w, 0 if none
UnitEnd(s, w) ==
  IF LitAt(s, w, "month") THEN w + 5
  ELSE IF LitAt(s, w, "year") THEN w + 4
  ELSE 0

\* the digits from p to d: \s*(?:month|year) after them
DurationFrom(s, p, d, e) ==
  IF e = 0 THEN Null ELSE Match(p, e, <<SubSeq(s, p, d - 1)>>)

DurationDigits(s, p, d) == DurationFrom(s, p, d, UnitEnd(s, SpacesEnd(s, d)))

DurationAt(s, p) ==
  IF IsDigit(Char(s, p)) THEN DurationDigits(s, p, DigitsEnd(s, p)) ELSE Null

\* position after (?:income|revenue|earnings?|profit|expected) at p, 0 if none
IncomeWordEnd(s, p) ==
  IF LitAt(s, p, "income") THEN p + 6
  ELSE IF LitAt(s, p, "revenue") THEN p + 7
  ELSE IF LitAt(s, p, "earnings") THEN p + 8
  ELSE IF LitAt(s, p, "earning") THEN p + 7
  ELSE IF LitAt(s, p, "profit") THEN p + 6
  ELSE IF LitAt(s, p, "expected") THEN p + 8
  ELSE 0

\* position after (?:of|is|will be|about)? at p
LinkWordEnd(s, p) ==
  IF LitAt(s, p, "of") THEN p + 2
  ELSE IF LitAt(s, p, "is") THEN p + 2
  ELSE IF LitAt(s, p, "will be") THEN p + 7
  ELSE IF LitAt(s, p, "about") THEN p + 5
  ELSE p

\* /(?:income|...|expected)\s*(?:of|is|will be|about)?\s*\$?(\d+(?:,\d{3})*(?:\.\d{2})?)/i
\* at p.  The pattern has one capturing group.
\* the numeral of the income pattern, after the optional link word (at
\* withLink) or, that failing, without it (at noLink)
IncomeNumeral(s, p, withLink, noLink) ==
  IF IsDigit(Char(s, withLink)) THEN NumeralAt(s, p, withLink)
  ELSE NumeralAt(s, p, noLink)

\* the income pattern from p, its word ending before k
IncomeFrom(s, p, k) ==
  IF k = 0 THEN Null
  ELSE IncomeNumeral(s, p,
         DollarEnd(s, SpacesEnd(s, LinkWordEnd(s, SpacesEnd(s, k)))),
         DollarEnd(s, SpacesEnd(s, k)))

IncomeAt(s, p) == IncomeFrom(s, p, IncomeWordEnd(s, p))

\* /lit/i at p, for the boilerplate phrases
INeedALoanForAt(s, p) ==
  IF LitAt(s, p, "i need a loan for") THEN Match(p, p + 17, <<>>) ELSE Null
IWantToBorrowAt(s, p) ==
  IF LitAt(s, p, "i want to borrow") THEN Match(p, p + 16, <<>>) ELSE Null
LoanForAt(s, p) ==
  IF LitAt(s, p, "loan for") THEN Match(p, p + 8, <<>>) ELSE Null
BorrowAt(s, p) ==
  IF LitAt(s, p, "borrow") THEN Match(p, p + 6, <<>>) ELSE Null

\* s.replace(/^to\s+/i, '')
StripLeadingTo(s) ==
  IF LitAt(s, 1, "to") /\ IsSpace(Char(s, 3))
  THEN SubSeq(s, SpacesEnd(s, 3), Len(s))
  ELSE s

\* s.replace(/^for\s+/i, '')
StripLeadingFor(s) ==
  IF LitAt(s, 1, "for") /\ IsSpace(Char(s, 4))
  THEN SubSeq(s, SpacesEnd(s, 4), Len(s))
  ELSE s

\* word \s+ (.+) with the word ending before position k: \s+ takes the white
\* space run but leaves (.+) at least one character
RestFrom(s, p, k, w) ==
  IF w = k THEN Null
  ELSE IF w <= Len(s) THEN Captured(s, p, w, Len(s) + 1)
  ELSE IF w - k >= 2 THEN Captured(s, p, Len(s), Len(s) + 1)
  ELSE Null

RestAfter(s, p, k) == RestFrom(s, p, k, SpacesEnd(s, k))

\* /(?:for|to)\s+(.+)/i at p
ForToAt(s, p) ==
  IF LitAt(s, p, "for") THEN RestAfter(s, p, p + 3)
  ELSE IF LitAt(s, p, "to") THEN RestAfter(s, p, p + 2)
  ELSE Null

\* /(?:start|open|build|buy|invest in)\s+(.+)/i at p
\* position after (?:start|open|build|buy|invest in) at p, 0 if none
StartWordEnd(s, p) ==
  IF LitAt(s, p, "start") THEN p + 5
  ELSE IF LitAt(s, p, "open") THEN p + 4
  ELSE IF LitAt(s, p, "build") THEN p + 5
  ELSE IF LitAt(s, p, "buy") THEN p + 3
  ELSE IF LitAt(s, p, "invest in") THEN p + 9
  ELSE 0

StartOpenFrom(s, p, k) == IF k = 0 THEN Null ELSE RestAfter(s, p, k)

StartOpenAt(s, p) == StartOpenFrom(s, p, StartWordEnd(s, p))

\* the patterns of parseLoanRequestFallback, by name
PatternAt(pattern, s, p) ==
  CASE pattern = "amount" -> AmountAt(s, p)
    [] pattern = "duration" -> DurationAt(s, p)
    [] pattern = "income" -> IncomeAt(s, p)
    [] pattern = "i need a loan for" -> INeedALoanForAt(s, p)
    [] pattern = "i want to borrow" -> IWantToBorrowAt(s, p)
    [] pattern = "loan for" -> LoanForAt(s, p)
    [] pattern = "borrow" -> BorrowAt(s, p)
    [] pattern = "for|to" -> ForToAt(s, p)
    [] pattern = "start|open" -> StartOpenAt(s, p)

\* the leftmost match of a pattern in s (String.prototype.match, no g flag)
Leftmost(M) ==
  IF M = {} THEN Null ELSE CHOOSE m \in M : \A n \in M : m.index <= n.index

FirstMatch(s, pattern) ==
  Leftmost({PatternAt(pattern, s, p) : p \in 1..Len(s)} \ {Null})

\* s.replace(pattern, ''): the leftmost match removed
Remove(s, m) ==
  IF m = Null THEN s
  ELSE SubSeq(s, 1, m.index - 1) \o SubSeq(s, m.end, Len(s))

RemoveFirst(s, pattern) == Remove(s, FirstMatch(s, pattern))

(***************************************************************************)
(* Chatbot: the fallback extractor                                         *)
(***************************************************************************)
LoanData(a, d, p, e) ==
  [amount |-> a, duration |-> d, purpose |-> p, expected_income |-> e]

\* the group of the income match that parseLoanRequestFallback reads
IncomeGroupRead == 2

\* the phrases taken out of the text to leave the purpose, in order
removePhrases ==
  <<"i need a loan for", "i want to borrow", "loan for", "borrow", "amount",
    "duration", "income">>

\* removePhrases.forEach(phrase => purpose = purpose.replace(phrase, '')),
\* from the k-th phrase on
RECURSIVE RemoveFrom(_, _)
RemoveFrom(purpose, k) ==
  IF k > Len(removePhrases) THEN purpose
  ELSE RemoveFrom(RemoveFirst(purpose, removePhrases[k]), k + 1)

RemovePhrases(text) == RemoveFrom(text, 1)

\* the secondary patterns, tried in order when the remainder is empty
FirstPurpose(g1, g2) ==
  IF Truthy(g1) THEN trim(g1.s) ELSE IF Truthy(g2) THEN trim(g2.s) ELSE ""

PurposeFromPatterns(text) ==
  FirstPurpose(MatchGroup(FirstMatch(text, "for|to"), 1),
               MatchGroup(FirstMatch(text, "start|open"), 1))

\* g ? parseFloat(g.replace(/,/g, '')) : null
FloatOrNull(g) == IF Truthy(g) THEN Num(parseFloat(RemoveCommas(g.s))) ELSE Null

\* g ? parseInt(g) : null
IntOrNull(g) == IF Truthy(g) THEN Num(parseInt(g.s)) ELSE Null

\* if (!purpose) { ... purposePatterns ... }
PurposeOr(purpose, text) ==
  IF purpose # "" THEN purpose ELSE PurposeFromPatterns(text)

parseLoanRequestFallback(text) ==
  IF text = "" THEN LoanData(Null, Null, Null, Num(0))
  ELSE LoanData(
         FloatOrNull(MatchGroup(FirstMatch(text, "amount"), 1)),
         IntOrNull(MatchGroup(FirstMatch(text, "duration"), 1)),
         Str(PurposeOr(
               StripLeadingFor(StripLeadingTo(trim(RemovePhrases(text)))),
               text)),
         OrElse(FloatOrNull(MatchGroup(FirstMatch(text, "income"),
                                       IncomeGroupRead)),
                Num(0)))

(***************************************************************************)
(* Chatbot: the language-model path                                        *)
(***************************************************************************)
\* What the call to the language-model service can come to:
\*   transport  fetch rejects            status    response.ok is false
\*   badbody    response.json() throws   nodata    the body is the JSON null
\*   nocontent  no message.content       text      content is not JSON
\*   jsonnull   content is "null"        scalar    content is a JSON number,
\*   notstring  content is not a string            string, boolean or array
\*   object     content is a JSON object with the given fields
OllamaFields(a, d, p, e) == LoanData(a, d, p, e)
OllamaOutcome(k) == [kind |-> k]
OllamaObject(f) == [kind |-> "object", fields |-> f]

\* the outcomes caught by the outer catch and by the inner catch
ThrowsOuter(llm) == llm.kind \in {"transport", "status", "badbody", "nodata"}
ThrowsInner(llm) ==
  llm.kind \in {"nocontent", "text", "jsonnull", "notstring"}

\* an exception in flight, where a value would have been
Thrown == [t |-> "thrown"]

\* the object built from a parsed response
CoerceParsed(f) ==
  LoanData(OrElse(f.amount, Null), OrElse(f.duration, Null),
           OrElse(f.purpose, Null), OrElse(f.expected_income, Num(0)))

\* try { const parsed = JSON.parse(content.trim()); return {...} }
InnerTry(llm) ==
  IF ThrowsInner(llm) THEN Thrown
  ELSE IF llm.kind = "scalar"
  THEN CoerceParsed(OllamaFields(Undefined, Undefined, Undefined, Undefined))
  ELSE CoerceParsed(llm.fields)

\* catch, had it thrown the error on
CatchRethrows(tried, text) == tried

\* catch (...) { return parseLoanRequestFallback(text) } after a try block
\* that came to tried
Catch(tried, text) ==
  IF tried = Thrown THEN parseLoanRequestFallback(text) ELSE tried

\* the outer try block, with the inner try and its catch in it
OuterTry(text, llm) ==
  IF ThrowsOuter(llm) THEN Thrown ELSE Catch(InnerTry(llm), text)

parseLoanRequestWithOllama(text, llm) == Catch(OuterTry(text, llm), text)

\* PassesGate, had the gate compared the fields with null
PassesGateNotNull(loanData) ==
  loanData.amount # Null /\ loanData.duration # Null /\ loanData.purpose # Null

\* !loanData.amount || !loanData.duration || !loanData.purpose is false
PassesGate(loanData) ==
  Truthy(loanData.amount) /\ Truthy(loanData.duration) /\ Truthy(loanData.purpose)

(***************************************************************************)
(* Bounds of the model                                                     *)
(***************************************************************************)
\* what the user does in one run: chat submissions plus negotiate clicks that
\* reach the remote call
MaxUserActions == 3

(***************************************************************************)
(* Offers and the remote service                                           *)
(***************************************************************************)
\* the ask: const targetRate = currentRate - 0.005, in thousandths
RateAsk == 5

Offer(a, r) == [amount_approved |-> a, interest_rate |-> r]
BankOffer(id, o) == [bank_id |-> id, bank_name |-> "Bank " \o id, offer |-> o]
HistoryEntry(req, offs) == [request |-> req, offers |-> offs]

\* the offer lists the lender pool answers a request with
OfferListA == <<BankOffer("A", Offer(100, 70)), BankOffer("B", Offer(100, 60))>>
OfferListB == <<BankOffer("A", Offer(0, 0)), BankOffer("B", Offer(50, 80))>>
RemoteOfferLists == {OfferListA, OfferListB}

\* the log of the remote service when the page is opened: one earlier request
EarlierRequest == LoanData(Num(30000), Num(6), Str("an earlier request"), Num(0))
InitialLog == <<HistoryEntry(EarlierRequest, OfferListA)>>

\* what POST /negotiate_offer can answer to a request body
NegotiationResponses(body) ==
  {[kind |-> "transport"], [kind |-> "status"], [kind |-> "badbody"]}
  \cup {[kind |-> "ok", agreed |-> FALSE, reason |-> "rate too low"]}
  \cup {[kind |-> "ok", agreed |-> TRUE, updated_offer |-> u,
         new_rate |-> Num(body.target_rate)] :
          u \in {Offer(body.current_offer.amount_approved, body.target_rate),
                 Offer(body.current_offer.amount_approved,
                       body.current_offer.interest_rate),
                 Undefined}}

(***************************************************************************)
(* State                                                                   *)
(***************************************************************************)
VARIABLES
  heap,           \* the lists of offer objects still referred to, by name
  offersRef,      \* App: offers, the name of the list (0: the initial [])
  selectedOffer,  \* App: selectedOffer
  currentRequest, \* App: currentRequest
  notification,   \* App: notification
  negotiating,    \* OffersGrid: negotiating
  negCalls,       \* negotiate_offer calls in flight, with their closures
  negIssued,      \* negotiate_offer calls issued so far
  fetchCalls,     \* App: GET /offers calls in flight
  fetchIssued,    \* App: GET /offers calls issued so far
  allOffers,      \* PreviousOffers: allOffers
  loading,        \* PreviousOffers: loading
  prevFetch,      \* PreviousOffers: its GET /offers call
  loanRequests,   \* remote: the log of requests and offers
  messages,       \* Chatbot: messages (their kinds)
  isTyping,       \* Chatbot: isTyping
  chat,           \* Chatbot: where handleSubmit stands, and its text
  loanData,       \* Chatbot: loanData of the last handleSubmit
  processCall,    \* App: where the last handleLoanRequest stands, its call
                  \* and what it alerted
  submits,        \* submissions typed so far
  probe           \* an interpretation on its own: text, outcome, result

vars == <<heap, offersRef, selectedOffer, currentRequest, notification,
          negotiating, negCalls, negIssued, fetchCalls, fetchIssued,
          allOffers, loading, prevFetch, loanRequests, messages, isTyping,
          chat, loanData, processCall, submits, probe>>

offerVars == <<heap, offersRef>>
gridVars == <<negotiating, negCalls, negIssued>>
fetchVars == <<fetchCalls, fetchIssued>>
prevVars == <<allOffers, loading, prevFetch>>
chatVars == <<messages, isTyping, chat, loanData, submits>>

\* App: the value of offers
offers == IF offersRef = 0 THEN <<>> ELSE heap[offersRef]

\* The lists that can still be reached: the one offers refers to and those
\* kept by the closures of the calls in flight.  The others are garbage.
Live(ref, calls) == ({ref} \cup {c.offers : c \in calls}) \ {0}

\* the heap h with only the lists named in S
Keep(h, S) == [g \in S |-> h[g]]

\* a name for a new list: the first one no live list has
NewList(S) == CHOOSE g \in 1..(Cardinality(S) + 1) : g \notin S

(***************************************************************************)
(* Rendering                                                               *)
(***************************************************************************)
\* App: selectedOffer && offers.length > 0, the "Best Loan Offers" section
RankedViewShown == selectedOffer # Null /\ Len(offers) > 0

\* .filter(offerData => offerData.offer.amount_approved > 0)
IsApproved(offerData) == offerData.offer.amount_approved > 0

\* CompareOffers, had the tie on amount_approved been left unbroken
CompareOffersByAmount(a, b) ==
  b.offer.amount_approved - a.offer.amount_approved

\* the comparator of .sort: negative when a goes before b
CompareOffers(a, b) ==
  IF b.offer.amount_approved # a.offer.amount_approved
  THEN b.offer.amount_approved - a.offer.amount_approved
  ELSE a.offer.interest_rate - b.offer.interest_rate

\* x put into a sorted list after every entry that does not go after it
RECURSIVE InsertOffer(_, _)
InsertOffer(sorted, x) ==
  IF sorted = <<>> THEN <<x>>
  ELSE IF CompareOffers(Head(sorted), x) <= 0
  THEN <<Head(sorted)>> \o InsertOffer(Tail(sorted), x)
  ELSE <<x>> \o sorted

\* Array.prototype.sort with the comparator: a stable sort
RECURSIVE SortOffers(_)
SortOffers(list) ==
  IF list = <<>> THEN <<>>
  ELSE InsertOffer(SortOffers(SubSeq(list, 1, Len(list) - 1)), list[Len(list)])

\* how many entries the ranked view keeps
RankedMax == 3

\* .slice(0, 3)
SliceOffers(list) ==
  IF Len(list) > RankedMax THEN SubSeq(list, 1, RankedMax) ELSE list

\* offers.filter(...).sort(...).slice(0, 3), the "Recommended Offers"
RankOffers(list) == SliceOffers(SortOffers(SelectSeq(list, IsApproved)))

\* The filter of the ranked view reads offerData.offer.amount_approved of every
\* offer: with an offer that is undefined the render throws and, there being
\* no error boundary, the page is unmounted.
RenderThrows ==
  RankedViewShown /\ \E i \in 1..Len(offers) : offers[i].offer = Undefined

Mounted == ~RenderThrows

\* OffersGrid: the negotiate button of card i is rendered (the card is not a
\* rejected one: (offerData.offer || {}).amount_approved !== 0) and enabled
ButtonEnabled(i) ==
  /\ i \in 1..Len(offers)
  /\ (IF offers[i].offer = Undefined THEN TRUE
      ELSE offers[i].offer.amount_approved # 0)
  /\ negotiating # Num(i)

(***************************************************************************)
(* Initial state: the page is mounted and both mount effects have run      *)
(***************************************************************************)
NoCall == [kind |-> "none"]
NoProbe == [pc |-> "off"]
Greeting == "bot"

InitApp ==
  /\ heap = <<>>
  /\ offersRef = 0
  /\ selectedOffer = Null
  /\ currentRequest = Null
  /\ notification = Null
  /\ negotiating = Null
  /\ negCalls = {}
  /\ negIssued = 0
  /\ fetchCalls = {[id |-> 1, logAt |-> Len(loanRequests)]}
  /\ fetchIssued = 1
  /\ allOffers = <<>>
  /\ loading = TRUE
  /\ prevFetch = [kind |-> "sent", logAt |-> Len(loanRequests)]
  /\ processCall = NoCall

InitChat ==
  /\ messages = <<Greeting>>
  /\ isTyping = FALSE
  /\ chat = [pc |-> "idle", text |-> ""]
  /\ loanData = Null
  /\ submits = 0

Init ==
  /\ loanRequests = InitialLog
  /\ InitApp
  /\ InitChat
  /\ probe = NoProbe

(***************************************************************************)
(* App: fetchOffers                                                        *)
(***************************************************************************)
\* fetchOffers() up to its await: the call is issued.  logAt is the length of
\* the remote log then: the answer holds at least that much of it.
fetchOffers ==
  /\ fetchIssued' = fetchIssued + 1
  /\ fetchCalls' = fetchCalls \cup
       {[id |-> fetchIssued + 1, logAt |-> Len(loanRequests)]}

\* remote: GET /offers answers with the log as it was when the remote handled
\* the call, at some time since the call was issued: its first n entries
ServedLog(c, n) ==
  IF n \in c.logAt..Len(loanRequests) THEN SubSeq(loanRequests, 1, n) ELSE <<>>

\* setOffers(latestRequest.offers || []): the offers of the last entry, parsed
\* into new objects, become offers
setLatestOffers(data) ==
  IF Len(data) > 0
  THEN LET kept == Live(0, negCalls)
           new == NewList(kept)
       IN  /\ heap' = [g \in kept \cup {new} |->
                        IF g = new THEN data[Len(data)].offers ELSE heap[g]]
           /\ offersRef' = new
  ELSE UNCHANGED offerVars

\* fetchOffers after its await, response.ok
fetchOffersReturns(c, n) ==
  /\ Mounted
  /\ c \in fetchCalls
  /\ n \in c.logAt..Len(loanRequests)
  /\ fetchCalls' = fetchCalls \ {c}
  /\ setLatestOffers(ServedLog(c, n))
  /\ UNCHANGED <<selectedOffer, currentRequest, notification,
                 gridVars, fetchIssued, prevVars, loanRequests, processCall,
                 chatVars, probe>>

\* fetchOffers after its await, response.ok false or fetch rejected: nothing
fetchOffersFails(c) ==
  /\ Mounted
  /\ c \in fetchCalls
  /\ fetchCalls' = fetchCalls \ {c}
  /\ UNCHANGED <<offerVars, selectedOffer, currentRequest, notification, gridVars, fetchIssued, prevVars, loanRequests,
                 processCall, chatVars, probe>>

(***************************************************************************)
(* PreviousOffers: fetchOffers, called once, on mount                      *)
(***************************************************************************)
\* response.ok: setAllOffers(data.loan_requests || []); setLoading(false)
PreviousOffersReturns(n) ==
  /\ Mounted
  /\ prevFetch.kind = "sent"
  /\ n \in prevFetch.logAt..Len(loanRequests)
  /\ allOffers' = ServedLog(prevFetch, n)
  /\ loading' = FALSE
  /\ prevFetch' = [kind |-> "done"]
  /\ UNCHANGED <<offerVars, selectedOffer, currentRequest, notification, gridVars, fetchVars, loanRequests, processCall,
                 chatVars, probe>>

\* response.ok false or fetch rejected: setLoading(false)
PreviousOffersFails ==
  /\ Mounted
  /\ prevFetch.kind = "sent"
  /\ loading' = FALSE
  /\ prevFetch' = [kind |-> "done"]
  /\ UNCHANGED <<allOffers, offerVars, selectedOffer, currentRequest,
                 notification,  gridVars, fetchVars, loanRequests,
                 processCall, chatVars, probe>>

(***************************************************************************)
(* App: notification                                                       *)
(***************************************************************************)
\* showNotification(message, type)
showNotification(message, type) ==
  notification' = [message |-> message, type |-> type]

\* hideNotification, by the close button or by the timer of showNotification
hideNotification ==
  /\ Mounted
  /\ notification # Null
  /\ notification' = Null
  /\ UNCHANGED <<offerVars, selectedOffer, currentRequest,  gridVars,
                 fetchVars, prevVars, loanRequests, processCall, chatVars,
                 probe>>

(***************************************************************************)
(* OffersGrid: handleNegotiate                                             *)
(***************************************************************************)
\* NegotiateBody, had the ask been the stored rate itself
NegotiateBodyAtStoredRate(offerData) ==
  [bank_id |-> offerData.bank_id,
   current_offer |-> offerData.offer,
   target_rate |-> offerData.offer.interest_rate]

\* const targetRate = currentRate - 0.005; and the body of the POST:
\* { bank_id, current_offer: offerData.offer, target_rate: targetRate }
NegotiateBody(offerData) ==
  [bank_id |-> offerData.bank_id,
   current_offer |-> offerData.offer,
   target_rate |-> offerData.offer.interest_rate - RateAsk]

\* handleNegotiate(offerData, index) up to its await, from a click on the
\* button of card i.  The closure keeps the offers list of this render.
handleNegotiate(i) ==
  /\ Mounted
  /\ ButtonEnabled(i)
  /\ LET offerData == offers[i]
     IN  IF offerData.offer = Undefined
         THEN \* reading interest_rate of undefined throws: the catch block
              /\ showNotification([text |-> "Error during negotiation",
                                   detail |-> Undefined], "error")
              /\ negotiating' = Null
              /\ UNCHANGED <<negCalls, negIssued>>
         ELSE /\ negIssued + submits < MaxUserActions
              /\ negIssued' = negIssued + 1
              /\ negCalls' = negCalls \cup
                   {[id |-> negIssued + 1, index |-> i, offers |-> offersRef,
                     body |-> NegotiateBody(offerData)]}
              /\ negotiating' = Num(i)
              /\ UNCHANGED notification
  /\ UNCHANGED <<offerVars, selectedOffer, currentRequest, 
                 fetchVars, prevVars, loanRequests, processCall, chatVars,
                 probe>>

\* ApplyUpdatedOffer, had the objects of the list been copied with the list
ApplyUpdatedOfferCopied(c, r) ==
  LET kept == Live(0, negCalls \ {c})
      new == NewList(kept)
  IN  /\ heap' = [g \in kept \cup {new} |->
                   IF g = new
                   THEN [heap[c.offers] EXCEPT ![c.index].offer = r.updated_offer]
                   ELSE heap[g]]
      /\ offersRef' = new

\* const updatedOffers = [...offers]; updatedOffers[index].offer = ...;
\* onOffersUpdate(updatedOffers): the object of the closure's list is changed
\* in place and a copy of that list becomes offers
ApplyUpdatedOffer(c, r) ==
  /\ heap' = Keep([heap EXCEPT ![c.offers][c.index].offer = r.updated_offer],
                  Live(c.offers, negCalls \ {c}))
  /\ offersRef' = c.offers

\* ReportOnly, had the result been stored before agreed is looked at
ReportOnlyStoring(c, message) ==
  /\ showNotification(message, "error")
  /\ heap' = Keep([heap EXCEPT ![c.offers][c.index].offer = Undefined],
                  Live(c.offers, negCalls \ {c}))
  /\ offersRef' = c.offers

\* the branches of handleNegotiate that report and leave offers alone
ReportOnly(c, message) ==
  /\ showNotification(message, "error")
  /\ heap' = Keep(heap, Live(offersRef, negCalls \ {c}))
  /\ UNCHANGED offersRef

\* FailureMessage, had every answer that is not a success been reported alike
FailureMessageGeneric(r) ==
  [text |-> "Error during negotiation", detail |-> Undefined]

\* what handleNegotiate reports for an answer r that is not agreed:
\* `Negotiation failed: ${result.reason}` for a rejection, 'Negotiation request
\* failed' when response.ok is false, 'Error during negotiation' from the catch
FailureMessage(r) ==
  IF r.kind = "ok"
  THEN [text |-> "Negotiation failed", detail |-> Str(r.reason)]
  ELSE IF r.kind = "status"
  THEN [text |-> "Negotiation request failed", detail |-> Undefined]
  ELSE [text |-> "Error during negotiation", detail |-> Undefined]

\* handleNegotiate after its await, for call c answered by r
handleNegotiateReturns(c, r) ==
  /\ Mounted
  /\ c \in negCalls
  /\ r \in NegotiationResponses(c.body)
  /\ negCalls' = negCalls \ {c}
  /\ negotiating' = Null
  /\ IF r.kind = "ok" /\ r.agreed
     THEN /\ ApplyUpdatedOffer(c, r)
          /\ showNotification([text |-> "Negotiation successful! New interest rate",
                               detail |-> r.new_rate], "success")
     ELSE ReportOnly(c, FailureMessage(r))
  /\ UNCHANGED <<selectedOffer, currentRequest,  negIssued,
                 fetchVars, prevVars, loanRequests, processCall, chatVars,
                 probe>>

(***************************************************************************)
(* Chatbot: handleSubmit, and App: handleLoanRequest                       *)
(***************************************************************************)
\* what the user types, and what the language-model service does, when the
\* whole front end runs
SubmitTexts ==
  {"I need $500 for 12 months to open a bakery",
   "I need $0 for 12 months to farm",
   " hello "}
SubmitOutcomes ==
  {OllamaOutcome("transport"),
   OllamaObject(OllamaFields(Num(50000), Num(12), Undefined, Undefined))}

\* what the user types, and what the language-model service does, when the
\* chat runs on its own
ChatTexts ==
  SubmitTexts \cup {"I need $500 for 0 months to farm", "$5 3 month"}
ChatOutcomes ==
  SubmitOutcomes
  \cup {OllamaOutcome("scalar"),
        OllamaObject(OllamaFields(Num(0), Num(12), Str("farm"), Num(100))),
        OllamaObject(OllamaFields(Num(50000), Num(12),
                                  Str("solar panel business"), Num(20000000)))}

\* parseLoanRequestWithOllama on these, worked out once
Interpreted ==
  [text \in {trim(t) : t \in ChatTexts} |->
     [llm \in ChatOutcomes |-> parseLoanRequestWithOllama(text, llm)]]

\* handleSubmit up to its first await
handleSubmit(text) ==
  /\ Mounted
  /\ ~isTyping
  /\ chat.pc = "idle"
  /\ trim(text) # ""
  /\ negIssued + submits < MaxUserActions
  /\ submits' = submits + 1
  /\ messages' = Append(messages, "user")
  /\ isTyping' = TRUE
  /\ chat' = [pc |-> "ollama", text |-> trim(text)]
  /\ loanData' = Null
  /\ UNCHANGED <<offerVars, selectedOffer, currentRequest, notification, gridVars, fetchVars, prevVars, loanRequests,
                 processCall, probe>>

\* handleLoanRequest(loanData) up to its await
handleLoanRequest(ld) ==
  /\ currentRequest' = ld
  /\ processCall' = [kind |-> "sent", request |-> ld]

\* handleSubmit after parseLoanRequestWithOllama has returned: the gate, and
\* for a complete request the call of onLoanRequest
handleSubmitParsed(llm) ==
  /\ Mounted
  /\ chat.pc = "ollama"
  /\ llm \in ChatOutcomes
  /\ LET ld == Interpreted[chat.text][llm]
     IN  /\ loanData' = ld
         /\ IF ~PassesGate(ld)
            THEN /\ messages' = Append(messages, "clarify")
                 /\ isTyping' = FALSE
                 /\ chat' = [pc |-> "idle", text |-> ""]
                 /\ UNCHANGED <<currentRequest, processCall>>
            ELSE /\ messages' = Append(messages, "processing")
                 /\ handleLoanRequest(ld)
                 /\ chat' = [pc |-> "process", text |-> ""]
                 /\ UNCHANGED isTyping
  /\ UNCHANGED <<offerVars, selectedOffer, notification,  gridVars,
                 fetchVars, prevVars, loanRequests, submits, probe>>

\* remote: POST /process_loan evaluates the request, logs it with its offers
\* and answers with the selected bank
ServeProcessLoan(offs, bank) ==
  /\ processCall.kind = "sent"
  /\ offs \in RemoteOfferLists
  /\ \E i \in 1..Len(offs) :
       offs[i].bank_id = bank /\ offs[i].offer.amount_approved > 0
  /\ loanRequests' = Append(loanRequests, HistoryEntry(processCall.request, offs))
  /\ processCall' = [kind |-> "ok", request |-> processCall.request,
                     result |-> [selected_bank |-> bank, offers |-> offs]]
  /\ UNCHANGED <<offerVars, selectedOffer, currentRequest, notification, gridVars, fetchVars, prevVars, chatVars, probe>>

\* the end of handleSubmit, once onLoanRequest has returned
handleSubmitDone ==
  /\ messages' = Append(messages, "processed")
  /\ isTyping' = FALSE
  /\ chat' = [chat EXCEPT !.pc = "idle"]

\* handleLoanRequest after its awaits, response.ok: the result is kept, the
\* offers are fetched (not awaited), and handleSubmit goes on
handleLoanRequestReturns ==
  /\ Mounted
  /\ processCall.kind = "ok"
  /\ selectedOffer' = processCall.result
  /\ fetchOffers
  /\ processCall' = [kind |-> "returned", request |-> processCall.request]
  /\ handleSubmitDone
  /\ UNCHANGED <<offerVars, currentRequest, notification,  gridVars,
                 prevVars, loanRequests, loanData, submits, probe>>

\* How the process_loan call fails: fetch rejects ("transport"), or the
\* response is not ok and its body has a detail, or has none
DefaultFailure == "Failed to process loan request"
ProcessLoanFailures ==
  {[kind |-> "transport"],
   [kind |-> "status", detail |-> Str("No lender could evaluate the request")],
   [kind |-> "status", detail |-> Undefined]}

\* AlertText, had the error been built without the detail
AlertTextDefault(failure) == "Error: " \o DefaultFailure

\* alert(`Error: ${error.message}`), error.message being
\* result.detail || 'Failed to process loan request', or the message of a
\* rejected fetch
AlertText(failure) ==
  IF failure.kind = "status"
  THEN "Error: " \o OrElse(failure.detail, Str(DefaultFailure)).s
  ELSE "Error: " \o "Failed to fetch"

\* handleLoanRequest after its awaits, the call failed.  The catch block
\* alerts and returns, and handleSubmit goes on
handleLoanRequestFails(failure) ==
  /\ Mounted
  /\ processCall.kind = "sent"
  /\ failure \in ProcessLoanFailures
  /\ processCall' = [kind |-> "failed", request |-> processCall.request,
                     alert |-> AlertText(failure)]
  /\ handleSubmitDone
  /\ UNCHANGED <<offerVars, selectedOffer, currentRequest, notification,
                 gridVars, fetchVars, prevVars, loanRequests, loanData,
                 submits, probe>>

(***************************************************************************)
(* The front end as a whole                                                *)
(***************************************************************************)
Next ==
  \/ \E c \in fetchCalls : \E n \in 0..Len(loanRequests) : fetchOffersReturns(c, n)
  \/ \E c \in fetchCalls : fetchOffersFails(c)
  \/ hideNotification
  \/ \E i \in 1..Len(offers) : handleNegotiate(i)
  \/ \E c \in negCalls : \E r \in NegotiationResponses(c.body) :
       handleNegotiateReturns(c, r)
  \/ \E text \in SubmitTexts : handleSubmit(text)
  \/ \E llm \in SubmitOutcomes : handleSubmitParsed(llm)
  \/ \E offs \in RemoteOfferLists : \E bank \in {"A", "B"} :
       ServeProcessLoan(offs, bank)
  \/ handleLoanRequestReturns
  \/ \E failure \in ProcessLoanFailures : handleLoanRequestFails(failure)

Spec == Init /\ [][Next]_vars

\* The whole front end when every negotiate_offer call that is issued is
\* eventually answered or fails, so that handleNegotiate goes on after its await
NegotiateCallEnds ==
  \E c \in negCalls : \E r \in NegotiationResponses(c.body) :
    handleNegotiateReturns(c, r)

SpecAnswered == Spec /\ WF_vars(NegotiateCallEnds)

\* The chat on its own, with more texts and more outcomes of the language-model
\* call
NextChat ==
  \/ \E text \in ChatTexts : handleSubmit(text)
  \/ \E llm \in ChatOutcomes : handleSubmitParsed(llm)
  \/ \E offs \in RemoteOfferLists : \E bank \in {"A", "B"} :
       ServeProcessLoan(offs, bank)
  \/ handleLoanRequestReturns
  \/ \E failure \in ProcessLoanFailures : handleLoanRequestFails(failure)

SpecChat == Init /\ [][NextChat]_vars

\* The same with PreviousOffers, which reads the remote log once and touches
\* nothing else
NextHistory ==
  \/ Next
  \/ \E n \in 0..Len(loanRequests) : PreviousOffersReturns(n)
  \/ PreviousOffersFails

SpecHistory == Init /\ [][NextHistory]_vars

(***************************************************************************)
(* Interpretation on its own: parseLoanRequestWithOllama(text) for a text  *)
(* and an outcome of the language-model call drawn from larger sets        *)
(***************************************************************************)
\* decimal digits of a natural number, as template literals format it
RECURSIVE NumberText(_)
NumberText(n) ==
  IF n < 10 THEN Char(Digits, n + 1)
  ELSE NumberText(n \div 10) \o Char(Digits, (n % 10) + 1)

\* the sentence of the round trip
Sentence(x, y, purpose, z) ==
  "I need a loan for $" \o NumberText(x) \o " for " \o NumberText(y)
    \o " months to " \o purpose \o " with expected income of $" \o NumberText(z)

ProbeAmounts == {5, 1200}
ProbeDurations == {3, 24}
ProbePurposes == {"farm", "open a bakery", "borrow tools"}
ProbeIncomes == {0, 7, 80000}

BakerySentence ==
  "I need $250,000 for 24 months to open a bakery with expected income of $80,000"

ProbeTexts ==
  {Sentence(x, y, p, z) :
     x \in ProbeAmounts, y \in ProbeDurations, p \in ProbePurposes,
     z \in ProbeIncomes}
  \cup {BakerySentence, "", "hello", "$5", "to  ", "0 months to x",
        "I Want to Borrow 1,000.75 for  2year Earnings $3",
        "revenue about 1,234.5 in 2 years"}

ProbeOutcomes ==
  {OllamaOutcome(k) :
     k \in {"transport", "status", "badbody", "nodata", "nocontent", "text",
            "jsonnull", "notstring", "scalar"}}
  \cup {OllamaObject(OllamaFields(a, d, p, e)) :
          a \in {Undefined, Num(0), Num(50000)},
          d \in {Undefined, Num(12)},
          p \in {Undefined, Null, Str(""), Str("solar panel business")},
          e \in {Undefined, Num(20000000)}}

InitProbe ==
  /\ loanRequests = InitialLog
  /\ InitApp
  /\ InitChat
  /\ \E text \in ProbeTexts : probe = [pc |-> "called", text |-> text]

\* parseLoanRequestWithOllama(text) returns, the call having come to llm
ProbeReturns(llm) ==
  /\ probe.pc = "called"
  /\ probe' = [pc |-> "returned", text |-> probe.text, llm |-> llm,
               result |-> parseLoanRequestWithOllama(probe.text, llm)]
  /\ UNCHANGED <<offerVars, selectedOffer, currentRequest, notification,
                 gridVars, fetchVars, prevVars, loanRequests, processCall,
                 chatVars>>

\* parseLoanRequestFallback(text) returns
FallbackReturns ==
  /\ probe.pc = "called"
  /\ probe' = [pc |-> "extracted", text |-> probe.text,
               result |-> parseLoanRequestFallback(probe.text)]
  /\ UNCHANGED <<offerVars, selectedOffer, currentRequest, notification,
                 gridVars, fetchVars, prevVars, loanRequests, processCall,
                 chatVars>>

NextProbe ==
  \/ \E llm \in ProbeOutcomes : ProbeReturns(llm)
  \/ FallbackReturns

SpecInterpret == InitProbe /\ [][NextProbe]_vars

(***************************************************************************)
(* The ranked view on its own: the render of the "Best Loan Offers" section *)
(* for a list of offers drawn from a larger set                            *)
(***************************************************************************)
RankAmounts == {0, 50, 100}
RankRates == {60, 80}
RankBanks == <<"A", "B", "C", "D">>

\* the spec's example: A(100000, 0.08), B(100000, 0.06), C(0)
RankExample ==
  <<BankOffer("A", Offer(100000, 80)), BankOffer("B", Offer(100000, 60)),
    BankOffer("C", Offer(0, 0))>>

\* the lists of up to four offers, one per bank
RankLists ==
  {RankExample} \cup
  UNION {{[i \in 1..n |-> BankOffer(RankBanks[i], Offer(a[i], r[i]))] :
            a \in [1..n -> RankAmounts], r \in [1..n -> RankRates]} :
         n \in 0..Len(RankBanks)}

InitRank ==
  /\ loanRequests = InitialLog
  /\ InitChat
  /\ \E list \in RankLists :
       /\ heap = <<list>>
       /\ offersRef = 1
  /\ selectedOffer = [selected_bank |-> "A"]
  /\ currentRequest = EarlierRequest
  /\ notification = Null
  /\ negotiating = Null
  /\ negCalls = {}
  /\ negIssued = 0
  /\ fetchCalls = {}
  /\ fetchIssued = 1
  /\ allOffers = InitialLog
  /\ loading = FALSE
  /\ prevFetch = [kind |-> "done"]
  /\ processCall = NoCall
  /\ probe = [pc |-> "render"]

\* the render of the ranked view: the list it shows
RenderRanked ==
  /\ probe.pc = "render"
  /\ RankedViewShown
  /\ probe' = [pc |-> "ranked", result |-> RankOffers(offers)]
  /\ UNCHANGED <<offerVars, selectedOffer, currentRequest, notification,
                 gridVars, fetchVars, prevVars, loanRequests, processCall,
                 chatVars>>

NextRank == RenderRanked

SpecRank == InitRank /\ [][NextRank]_vars

(***************************************************************************)
(* Properties                                                              *)
(***************************************************************************)
\* the calls in flight for the card at index i
InFlight(i) == {c \in negCalls : c.index = i}

\* the interest rate stored in a list at index i, undefined where there is
\* no offer to read it from
RateAt(list, i) ==
  IF i \in 1..Len(list)
  THEN IF list[i].offer = Undefined THEN Undefined
       ELSE Num(list[i].offer.interest_rate)
  ELSE Undefined

\* call c is answered by r and r agrees
AgreedReturn(c, r) ==
  IF r.kind = "ok" THEN r.agreed /\ handleNegotiateReturns(c, r) ELSE FALSE

\* call c is answered by r: a rejection, a status that is not a success, a
\* body that cannot be read, or no answer at all
RefusedReturn(c, r) ==
  IF r.kind = "ok" THEN ~r.agreed /\ handleNegotiateReturns(c, r)
  ELSE handleNegotiateReturns(c, r)

\* C1: every offer index has at most one negotiate_offer call issued and not
\* yet completed.
C1_OneInFlightPerIndex ==
  \A i \in {c.index : c \in negCalls} : Cardinality(InFlight(i)) <= 1

\* C2: when the ranked view is visible together with the current request, the
\* process_loan call for that request has returned successfully and its result
\* has been observed.
C2_RankedViewAfterEvaluation ==
  (RankedViewShown /\ currentRequest # Null) =>
    (processCall.kind = "returned" /\ processCall.request = currentRequest)

\* C3: after an agreed response with new_rate n, the offer stored at the
\* negotiated index has interest_rate n.
C3_AgreedRateStored ==
  [][\A c \in negCalls : \A r \in NegotiationResponses(c.body) :
       AgreedReturn(c, r) => RateAt(offers', c.index) = r.new_rate]_vars

\* C4: when the offers list was reloaded while a negotiation was in flight, the
\* agreed response of that negotiation is not applied and the reloaded list
\* stays the current one, unchanged.
C4_StaleResultNotApplied ==
  [][\A c \in negCalls : \A r \in NegotiationResponses(c.body) :
       (AgreedReturn(c, r) /\ c.offers # offersRef) =>
         (offersRef' = offersRef /\ offers' = offers)]_vars

\* the offers of the last entry of the history PreviousOffers holds
LastHistoryOffers ==
  IF allOffers = <<>> THEN <<>> ELSE allOffers[Len(allOffers)].offers

\* C5: once the history has been loaded, after an agreed negotiation, and
\* after the offers refresh of a successful submission, the offers of the last
\* history entry equal the current offers.
C5_HistoryMirrorsOffers ==
  [][/\ \A c \in negCalls : \A r \in NegotiationResponses(c.body) :
          (~loading /\ AgreedReturn(c, r)) => LastHistoryOffers' = offers'
     /\ \A c \in fetchCalls : \A n \in 0..Len(loanRequests) :
          (~loading /\ c.id > 1 /\ fetchOffersReturns(c, n)) =>
            LastHistoryOffers' = offers'
    ]_vars

\* C6: after an agreed response, the interest_rate stored at the negotiated
\* index is strictly lower than the one stored there when the negotiation was
\* issued.
C6_AgreedRateLower ==
  [][\A c \in negCalls : \A r \in NegotiationResponses(c.body) :
       AgreedReturn(c, r) =>
         LET after == RateAt(offers', c.index)
         IN  IF after = Undefined THEN FALSE
             ELSE after.v < c.body.current_offer.interest_rate]_vars

\* C7: a negotiation that ends in a rejection, a status that is not a success
\* or a transport failure leaves every offers list as it was and issues no
\* offers update.
C7_RefusalMutatesNothing ==
  [][\A c \in negCalls : \A r \in NegotiationResponses(c.body) :
       RefusedReturn(c, r) =>
         /\ offersRef' = offersRef
         /\ offers' = offers
         /\ \A g \in DOMAIN heap' : heap'[g] = heap[g]]_vars

\* a rejection has been reported for the negotiation of a loaded offer, and
\* nothing is in flight any more
C7_Witness ==
  /\ notification # Null
  /\ notification.type = "error"
  /\ notification.message.text = "Negotiation failed"
  /\ negIssued > 0
  /\ negCalls = {}
  /\ Len(offers) > 0

\* the ways the language-model path fails: no transport, a status that is not
\* a success, a body that is not the expected JSON shape, or a parsed response
\* without one of the required fields
LacksRequiredField(f) ==
  \E k \in {"amount", "duration", "purpose"} : f[k] \in {Undefined, Null}

ModelPathFails(llm) ==
  IF llm.kind = "object" THEN LacksRequiredField(llm.fields) ELSE TRUE

\* C8: on every failure of the language-model path the interpretation is
\* exactly what the deterministic extractor returns for the text.
C8_FallbackOnEveryFailure ==
  (probe.pc = "returned") =>
    (ModelPathFails(probe.llm) =>
       probe.result = parseLoanRequestFallback(probe.text))

\* a field that is there: not null, and not the empty string
NonNull(v) == v \notin {Null, Undefined, Str("")}

\* a field that is there, 0 counting as there or not
Present(v, zeroIsThere) == NonNull(v) /\ (zeroIsThere \/ v # Num(0))

\* the step of handleSubmit that follows interpretation submits exactly when
\* amount, duration and purpose are all there; otherwise it asks for
\* clarification and issues nothing
GateFollows(zeroIsThere) ==
  \A llm \in ChatOutcomes :
    handleSubmitParsed(llm) =>
      LET ld == loanData'
          complete ==
            /\ Present(ld.amount, zeroIsThere)
            /\ Present(ld.duration, zeroIsThere)
            /\ Present(ld.purpose, zeroIsThere)
      IN  IF complete
          THEN processCall' = [kind |-> "sent", request |-> ld]
          ELSE /\ processCall' = processCall
               /\ messages'[Len(messages')] = "clarify"

\* C9 as stated: process_loan is called if and only if amount, duration and
\* purpose are all non-null and non-empty, zero included; otherwise the user
\* is asked for clarification and nothing is submitted.
C9_GateNonNull == [][GateFollows(TRUE)]_vars

\* C9 as amended: process_loan is called if and only if amount, duration and
\* purpose are all non-null, non-empty and not zero, whatever expected_income
\* is; otherwise the user is asked for clarification and nothing is submitted.
C9_GateNonZero == [][GateFollows(FALSE)]_vars

\* an interpreted result with amount 0 and the other fields there has been
\* answered with a request for clarification, after one with an expected
\* income was submitted
C9_Witness ==
  /\ chat.pc = "idle"
  /\ loanData # Null
  /\ loanData.amount = Num(0)
  /\ NonNull(loanData.duration)
  /\ NonNull(loanData.purpose)
  /\ messages[Len(messages)] = "clarify"
  /\ currentRequest # Null
  /\ currentRequest.expected_income # Num(0)

\* s contains the substring sub
Contains(s, sub) ==
  \E p \in 1..(Len(s) + 1) :
    p + Len(sub) - 1 <= Len(s) /\ SubSeq(s, p, p + Len(sub) - 1) = sub

\* C10: for "I need a loan for $X for Y months to {purpose} with expected
\* income of $Z" the fallback extractor returns amount X, duration Y,
\* expected_income Z and a purpose that is not empty and contains the phrase.
C10_FallbackRoundTrip ==
  \A x \in ProbeAmounts, y \in ProbeDurations, p \in ProbePurposes,
     z \in ProbeIncomes :
    (probe.pc = "extracted" /\ probe.text = Sentence(x, y, p, z)) =>
      /\ probe.result.amount = Num(100 * x)
      /\ probe.result.duration = Num(y)
      /\ probe.result.expected_income = Num(100 * z)
      /\ probe.result.purpose # Str("")
      /\ Contains(probe.result.purpose.s, p)

\* C11: the ranking has at most 3 entries, none with amount_approved 0, and
\* of two adjacent entries the first has the greater amount_approved, or the
\* same amount_approved and a lower or equal interest_rate.
C11_RankingOrdered ==
  (probe.pc = "ranked") =>
    LET r == probe.result
    IN  /\ Len(r) <= 3
        /\ \A k \in 1..Len(r) : r[k].offer.amount_approved # 0
        /\ \A k \in 1..(Len(r) - 1) :
             \/ r[k].offer.amount_approved > r[k + 1].offer.amount_approved
             \/ /\ r[k].offer.amount_approved = r[k + 1].offer.amount_approved
                /\ r[k].offer.interest_rate <= r[k + 1].offer.interest_rate

\* the spec's example has been ranked to [B, A]
C11_Witness ==
  /\ probe.pc = "ranked"
  /\ offers = RankExample
  /\ probe.result = <<RankExample[2], RankExample[1]>>

\* C12: when the process_loan call fails or answers with a status that is not
\* a success, the failure is alerted with the detail the remote gave, the
\* current offers stay as they are and no offers fetch is issued.
C12_FailedSubmissionUpdatesNothing ==
  [][\A failure \in ProcessLoanFailures :
       handleLoanRequestFails(failure) =>
         /\ offersRef' = offersRef
         /\ heap' = heap
         /\ fetchCalls' = fetchCalls
         /\ fetchIssued' = fetchIssued
         /\ processCall'.kind = "failed"
         /\ IF failure.kind = "status"
            THEN IF failure.detail \in {Undefined, Null, Str("")} THEN TRUE
                 ELSE processCall'.alert = "Error: " \o failure.detail.s
            ELSE TRUE]_vars

\* a submission has failed with a detail from the remote, offers being loaded
C12_Witness ==
  /\ processCall.kind = "failed"
  /\ processCall.alert = "Error: No lender could evaluate the request"
  /\ Len(offers) > 0

\* C13: whatever the text and whatever the language-model call comes to, the
\* caller gets a result with the four fields amount, duration, purpose and
\* expected_income, never an exception.
C13_InterpretNeverRaises ==
  (probe.pc \in {"returned", "extracted"}) =>
    /\ probe.result # Thrown
    /\ DOMAIN probe.result = {"amount", "duration", "purpose", "expected_income"}

\* an interpretation has returned although reading the parsed content threw
C13_Witness ==
  /\ probe.pc = "returned"
  /\ probe.llm.kind = "jsonnull"
  /\ probe.text = "hello"
  /\ probe.result = LoanData(Null, Null, Str("hello"), Num(0))

\* C14: for "I need $250,000 for 24 months to open a bakery with expected
\* income of $80,000" the fallback returns amount 250000, duration 24,
\* purpose exactly "open a bakery" and expected_income 80000.
C14_BakeryPurpose ==
  (probe.pc = "extracted" /\ probe.text = BakerySentence) =>
    probe.result =
      LoanData(Num(100 * 250000), Num(24), Str("open a bakery"),
               Num(100 * 80000))

\* C15: no update is lost between overlapping negotiations on one list: an
\* agreed result for index i is seen at i by every negotiation still in flight
\* on that list, and applying an agreed result makes current the list of its
\* negotiation with the new offer at its index and every other entry as it
\* was; so when the agreed results for i and j have both arrived, in either
\* order, the current list holds both.
C15_NoLostUpdate ==
  [][\A c \in negCalls : \A r \in NegotiationResponses(c.body) :
       AgreedReturn(c, r) =>
         /\ \A d \in negCalls \ {c} :
              (d.offers = c.offers) =>
                heap'[d.offers][c.index].offer = r.updated_offer
         /\ Len(offers') = Len(heap[c.offers])
         /\ offers'[c.index].offer = r.updated_offer
         /\ \A k \in 1..Len(offers') :
              (k # c.index) => offers'[k] = heap[c.offers][k]]_vars

\* the agreed results of two negotiations issued on the list of the mount
\* fetch, for both of its entries, have been applied
C15_Witness ==
  /\ negIssued = 2
  /\ negCalls = {}
  /\ fetchIssued = 1
  /\ Len(offers) = 2
  /\ offers[1].offer = Offer(100, 70 - RateAsk)
  /\ offers[2].offer = Offer(100, 60 - RateAsk)

\* C16: an earlier fetch's response never overwrites a later one's: when the
\* fetch issued after the first successful submission, the most recently issued
\* one, has set the offers, and the response to the mount fetch arrives after
\* it, as the last one outstanding, the current offers remain those of the
\* response to the most recently issued fetch.
C16_LatestFetchWins ==
  [][\A c \in fetchCalls : \A n \in 0..Len(loanRequests) :
       (/\ fetchCalls = {c}
        /\ c.id = 1
        /\ fetchIssued = 2
        /\ negIssued = 0
        /\ Len(offers) > 0
        /\ fetchOffersReturns(c, n)) => offers' = offers]_vars

\* C17: the confirmation that the loan request has been processed is posted
\* only when the process_loan call of that request has succeeded: a step that
\* appends it to the messages is one in which handleLoanRequest returns from a
\* successful call for the request the chat submitted.
C17_ProcessedOnlyAfterSuccess ==
  [][(/\ Len(messages') = Len(messages) + 1
      /\ messages'[Len(messages')] = "processed")
       => (/\ processCall.kind = "ok"
           /\ processCall.request = loanData
           /\ processCall'.kind = "returned")]_vars

\* C18: whenever the ranked view is shown, the selected bank that marks the
\* recommended offer comes from the evaluation of the request whose offers are
\* ranked: as long as no negotiation has touched them, the current offers are
\* the offers of the evaluation held in selectedOffer.
C18_SelectedBankOfSameRequest ==
  (RankedViewShown /\ negIssued = 0) => offers = selectedOffer.offers

\* the indexes of the cards of an offers list
CardIndexes == 1..Len(OfferListA)

\* C19: every negotiation attempt gives its index back: the step that handles
\* the answer to a call, whatever the answer, ends the call and leaves no index
\* marked as negotiating; and when every issued call is eventually answered or
\* fails, an index marked as negotiating is eventually not marked any more.
C19_NegotiatingLeadsToIdle ==
  /\ [][\A c \in negCalls : \A r \in NegotiationResponses(c.body) :
          handleNegotiateReturns(c, r) =>
            (negotiating' = Null /\ c \notin negCalls')]_vars
  /\ \A i \in CardIndexes : (negotiating = Num(i)) ~> (negotiating # Num(i))

\* C20: applying an agreed result at index i changes only the offer of the
\* entry at i: the current offers keep their length and order, the bank_id and
\* bank_name at i, and every entry at every other position.
C20_OnlyOfferAtIndexChanges ==
  [][\A c \in negCalls : \A r \in NegotiationResponses(c.body) :
       AgreedReturn(c, r) =>
         /\ Len(offers') = Len(offers)
         /\ offers'[c.index].bank_id = offers[c.index].bank_id
         /\ offers'[c.index].bank_name = offers[c.index].bank_name
         /\ \A k \in 1..Len(offers) :
              (k # c.index) => offers'[k] = offers[k]]_vars

\* C21: every negotiation request that is issued carries the bank_id and the
\* offer stored at the negotiated position when it is issued, and a target
\* rate that is that offer's interest rate minus the fixed ask, also when the
\* position has been negotiated before.
C21_AskBelowStoredRate ==
  [][\A c \in negCalls' \ negCalls :
       /\ c.index \in 1..Len(offers)
       /\ c.body.bank_id = offers[c.index].bank_id
       /\ c.body.current_offer = offers[c.index].offer
       /\ c.body.target_rate = offers[c.index].offer.interest_rate - RateAsk]_vars

\* a second request for card 1, issued after an agreed result has lowered its
\* stored rate by the ask: it asks for the ask below the lowered rate
C21_Witness ==
  \E c \in negCalls :
    /\ c.id = 2
    /\ c.index = 1
    /\ c.body.current_offer = Offer(100, 70 - RateAsk)
    /\ c.body.target_rate = 70 - RateAsk - RateAsk
    /\ offers[1].offer = c.body.current_offer

\* the outcome a notification tells the user: a success, a rejection by the
\* bank, or a negotiation that failed
OutcomeShown(n) ==
  IF n = Null THEN "none"
  ELSE IF n.type = "success" THEN "success"
  ELSE IF n.message.text = "Negotiation failed" THEN "rejected"
  ELSE IF n.message.text \in {"Negotiation request failed",
                              "Error during negotiation"} THEN "failed"
  ELSE "other"

\* C22: the step that handles the answer to a negotiation reports one outcome,
\* and the outcome tells the answers apart: a success exactly when the answer
\* agrees, a rejection with the bank's reason exactly when the answer does not
\* agree, and a failure that is not a rejection exactly when the call returned
\* a status that is not a success, a body that cannot be read, or nothing.
C22_OneOutcomePerAttempt ==
  [][\A c \in negCalls : \A r \in NegotiationResponses(c.body) :
       handleNegotiateReturns(c, r) =>
         /\ OutcomeShown(notification') \in {"success", "rejected", "failed"}
         /\ (OutcomeShown(notification') = "success") <=> AgreedReturn(c, r)
         /\ (OutcomeShown(notification') = "rejected") <=>
              (r.kind = "ok" /\ ~AgreedReturn(c, r))
         /\ (OutcomeShown(notification') = "rejected") =>
              notification'.message.detail = Str(r.reason)
         /\ (OutcomeShown(notification') = "failed") <=> (r.kind # "ok")]_vars

\* the only negotiation that was issued has been answered with a rejection, and
\* the rejection with its reason is what is shown
C22_Witness ==
  /\ negIssued = 1
  /\ negCalls = {}
  /\ OutcomeShown(notification) = "rejected"
  /\ notification.message.detail = Str("rate too low")

====
